---- MODULE Spec2Model ----
(***************************************************************************)
(* Model of lizard_sample3.py: a Streamlit script that builds a synthetic  *)
(* lizard population once (cached), and on "Draw Sample" draws a simple    *)
(* or a stratified sample and renders its summary.                         *)
(*                                                                         *)
(* A Streamlit script is re-executed from its first line on every widget   *)
(* interaction; the page shows what that execution rendered.  Each action  *)
(* below is one such execution of the whole script (lines 1-175) with the  *)
(* widget values the interaction leaves behind.                            *)
(*                                                                         *)
(* Scaling.  The strata (4000, 4000, 1500, 500 rows) are scaled down to    *)
(* NBeach, NJungle, NWetlands, NCaves rows so that every sample the draw   *)
(* can return is enumerated; max_value of the size input (10000, the       *)
(* population size) and the default size (100) scale with them.  Floats    *)
(* (float64) are binary floats of MantBits significant bits with FracBits  *)
(* fractional bits, rounded to nearest-even after every operation.         *)
(***************************************************************************)
EXTENDS Integers, Sequences, FiniteSets, TLC

\* ---------------------------------------------------------------- bounds
\* significant bits of a float (53 in float64)
MantBits == 8
\* fractional bits of a float: values are integers in units of 2^-FracBits g
FracBits == 2
\* largest quota a user types besides the default
MaxQuota == 3

\* ------------------------------------------------------------- constants
\* rows per stratum: 4000, 4000, 1500, 500 in the source, scaled down
NBeach == 2
NJungle == 1
NWetlands == 1
NCaves == 1
\* value= of the stratified quota inputs
DefaultQuota == 25
\* value= of the simple-random size input: 100 of 10000 in the source,
\* scaled down with the population
DefaultTotal == 1
\* min_value= of the inputs
MinQuota == 0
MinTotal == 1
\* np.random.seed(101)
Seed == 101

\* ------------------------------------------------------ float arithmetic
RECURSIVE Pow2(_)
Pow2(k) == IF k = 0 THEN 1 ELSE 2 * Pow2(k - 1)

\* one gram, and the first integer that needs more than MantBits bits
Unit == Pow2(FracBits)
MantLimit == Pow2(MantBits)

\* num/den (num >= 0, den > 0) rounded to an integer, ties to even
RoundHalfEven(num, den) ==
    LET fl == num \div den
        rem == num % den
    IN  IF 2 * rem < den THEN fl
        ELSE IF 2 * rem > den THEN fl + 1
        ELSE fl + (fl % 2)

\* num/den rounded to MantBits significant bits
RECURSIVE RoundPos(_, _)
RoundPos(num, den) ==
    IF num < den * MantLimit
    THEN RoundHalfEven(num, den)
    ELSE 2 * RoundPos(num, 2 * den)

Fl(num, den) == IF num >= 0 THEN RoundPos(num, den) ELSE 0 - RoundPos(0 - num, den)

FAdd(a, b) == Fl(a + b, 1)
FSub(a, b) == Fl(a - b, 1)
FDiv(a, n) == Fl(a, n)

\* ndarray.sum(): left-to-right accumulation
RECURSIVE FSumFrom(_, _, _)
FSumFrom(acc, xs, i) ==
    IF i > Len(xs) THEN acc ELSE FSumFrom(FAdd(acc, xs[i]), xs, i + 1)

FSum(xs) == FSumFrom(0, xs, 1)

\* Series.mean(): sum / count
Mean(xs) == FDiv(FSum(xs), Len(xs))

\* the mean over the reals, as the pair (sum, count)
RECURSIVE ExactSum(_, _)
ExactSum(xs, i) == IF i > Len(xs) THEN 0 ELSE xs[i] + ExactSum(xs, i + 1)

\* ------------------------------------------------- population generator
Unbound == 0 - 1

\* groups (lines 39-44), in insertion order: name, mu, sigma, n_count
groups ==
    << [name |-> "Beach",    mu |-> 50,  sigma |-> 5,  n_count |-> NBeach],
       [name |-> "Jungle",   mu |-> 120, sigma |-> 15, n_count |-> NJungle],
       [name |-> "Wetlands", mu |-> 220, sigma |-> 30, n_count |-> NWetlands],
       [name |-> "Caves",    mu |-> 350, sigma |-> 60, n_count |-> NCaves] >>

Habitats == << "Beach", "Jungle", "Wetlands", "Caves" >>

\* the characters of a habitat name, for name[0]
NameChars(name) ==
    CASE name = "Beach"    -> << "B", "e", "a", "c", "h" >>
      [] name = "Jungle"   -> << "J", "u", "n", "g", "l", "e" >>
      [] name = "Wetlands" -> << "W", "e", "t", "l", "a", "n", "d", "s" >>
      [] name = "Caves"    -> << "C", "a", "v", "e", "s" >>

\* str(i): the decimal digits of i >= 0
RECURSIVE Digits(_)
Digits(i) ==
    LET d == << "0", "1", "2", "3", "4", "5", "6", "7", "8", "9" >>
    IN  IF i < 10 THEN << d[i + 1] >> ELSE Digits(i \div 10) \o << d[(i % 10) + 1] >>

\* f"{name[0]}_{i}"
MakeId_index_only(name, i) == << "_" >> \o Digits(i)
MakeId(name, i) == << Head(NameChars(name)), "_" >> \o Digits(i)

\* catchability (lines 52-54), in hundredths
CatchProbFor(name) ==
    IF name = "Caves" THEN 5
    ELSE IF name = "Wetlands" THEN 60
    ELSE 100

\* the k-th standard normal draw of the generator seeded with seed, in
\* quarters of a standard deviation (a fixed stream for a fixed seed)
StdNormalQ(seed, k) == (((seed + k) * 37 + k * k * 11) % 17) - 8

\* np.random.normal(mu, sigma, n_count)[i], draws taken from position
\* offset of the stream: mu + sigma * z, as a float
NormalDraw(mu, sigma, offset, i) ==
    Fl((4 * mu + sigma * StdNormalQ(Seed, offset + i)) * Unit, 4)

\* the DataFrame appended for one habitat (lines 56-61)
HabitatFrame(g, offset) ==
    [ i \in 1..g.n_count |->
        [ ID         |-> MakeId(g.name, i - 1),
          Habitat    |-> g.name,
          Weight_g   |-> NormalDraw(g.mu, g.sigma, offset, i),
          Catch_Prob |-> CatchProbFor(g.name) ] ]

\* the loop of lines 47-61 followed by pd.concat (line 63)
RECURSIVE PopList(_, _)
PopList(k, offset) ==
    IF k > Len(groups) THEN << >>
    ELSE HabitatFrame(groups[k], offset) \o PopList(k + 1, offset + groups[k].n_count)

\* the body of get_population (lines 37-63)
BuildPopulation == PopList(1, 0)

\* st.cache_data: is there an entry for get_population()
CacheHit_never(c) == FALSE
CacheHit(c) == c # {}

\* column Weight_g of a frame
WeightCol(frame) == [ i \in 1..Len(frame) |-> frame[i].Weight_g ]

\* population size; also max_value of the size input (10000)
MaxTotal == NBeach + NJungle + NWetlands + NCaves

\* ---------------------------------------------------------------- state
VARIABLES
    session,          \* a browser session has loaded the page
    cache,            \* st.cache_data store of get_population: {} or {value}
    builds,           \* executions of the body of get_population
    full_pop,         \* line 65
    true_mean,        \* line 66
    enable_stratified,\* line 75
    enable_bias,      \* line 76
    n_beach,          \* line 84 (Unbound while the input is not rendered)
    n_jungle,         \* line 85
    n_wetland,        \* line 86
    n_caves,          \* line 87
    n_total,          \* line 90 (Unbound while the input is not rendered)
    typed_total,      \* the text in the size input's box
    run_btn,          \* line 95
    sample_df,        \* lines 101, 118, 129
    sample_weights,   \* the weights= arguments given to DataFrame.sample
    page,             \* what the last execution rendered below the intro
    metrics,          \* lines 138-143: << >> or << the three metrics >>
    counts,           \* line 157: << >> or << the reindexed counts >>
    prev_failed       \* the draw request before the one shown ended in st.error

vars == << session, cache, builds, full_pop, true_mean, enable_stratified,
           enable_bias, n_beach, n_jungle, n_wetland, n_caves, n_total,
           typed_total, run_btn, sample_df, sample_weights, page, metrics,
           counts, prev_failed >>

\* --------------------------------------------------------------- sampler
Min(a, b) == IF a <= b THEN a ELSE b

\* the orders in which n distinct members of S can be drawn
RECURSIVE Arrangements(_, _)
Arrangements(S, n) ==
    IF n = 0 THEN { << >> }
    ELSE UNION { { << x >> \o t : t \in Arrangements(S \ {x}, n - 1) } : x \in S }

\* row positions DataFrame.sample can return under weights w
Drawable(frame, w) ==
    IF w = "Catch_Prob"
    THEN { i \in 1..Len(frame) : frame[i].Catch_Prob > 0 }
    ELSE 1..Len(frame)

\* DataFrame.sample(n, weights=w) with replace=False raises ValueError:
\* n larger than the frame, weights that sum to zero, or fewer non-zero
\* weights than n
SampleRaises(frame, n, w) ==
    \/ n > Len(frame)
    \/ w = "Catch_Prob" /\ Len(frame) > 0 /\ Drawable(frame, w) = {}
    \/ w = "Catch_Prob" /\ n > Cardinality(Drawable(frame, w))

\* the positions drawn: n distinct rows, in the order drawn
Positions_replace(frame, n, w) == [ 1..n -> Drawable(frame, w) ]
Positions(frame, n, w) == Arrangements(Drawable(frame, w), n)

\* the frames DataFrame.sample(n, weights=w) can return
Sample(frame, n, w) ==
    { [ k \in 1..n |-> frame[p[k]] ] : p \in Positions(frame, n, w) }

\* full_pop[full_pop['Habitat'] == habitat] (line 112)
SubPop(pop, habitat) ==
    LET Keep(r) == r.Habitat = habitat IN SelectSeq(pop, Keep)

\* lines 105-108
StrataRequests(nb, nj, nw, nc) ==
    << [habitat |-> "Beach",    n_req |-> nb],
       [habitat |-> "Jungle",   n_req |-> nj],
       [habitat |-> "Wetlands", n_req |-> nw],
       [habitat |-> "Caves",    n_req |-> nc] >>

\* line 111
Requested_any(n_req) == n_req >= 0
Requested(n_req) == n_req > 0

\* line 114
ToTake_uncapped(n_req, available) == n_req
ToTake(n_req, available) == Min(n_req, available)

\* the weights= argument of the stratified sub-draws (line 115: none)
StratifiedWeights_bias(bias) == IF bias THEN "Catch_Prob" ELSE "None"
StratifiedWeights(bias) == "None"

\* the weights= argument of the simple draw (line 125)
SimpleWeights(bias) == IF bias THEN "Catch_Prob" ELSE "None"

\* whether some sub-draw of the loop of lines 110-115 raises
StratifiedRaises(pop, reqs, bias) ==
    \E k \in 1..Len(reqs) :
        /\ Requested(reqs[k].n_req)
        /\ SampleRaises(SubPop(pop, reqs[k].habitat),
                        ToTake(reqs[k].n_req, Len(SubPop(pop, reqs[k].habitat))),
                        StratifiedWeights(bias))

\* the lists sub_samples the loop of lines 110-115 can build from entry k on
RECURSIVE SubSamples(_, _, _, _)
SubSamples(pop, reqs, bias, k) ==
    IF k > Len(reqs) THEN { << >> }
    ELSE LET sub_pop == SubPop(pop, reqs[k].habitat)
             to_take == ToTake(reqs[k].n_req, Len(sub_pop))
             rest    == SubSamples(pop, reqs, bias, k + 1)
         IN  IF Requested(reqs[k].n_req)
             THEN { << s >> \o t :
                      s \in Sample(sub_pop, to_take, StratifiedWeights(bias)),
                      t \in rest }
             ELSE rest

\* pd.concat (line 118)
RECURSIVE Concat(_)
Concat(frames) ==
    IF frames = << >> THEN << >> ELSE Head(frames) \o Concat(Tail(frames))

\* ------------------------------------------------------- results display
\* the names bound at module level when line 157 executes, and the names
\* local to get_population (lines 39-61)
ModuleNames ==
    { "st", "pd", "np", "plt", "population_stats", "get_population",
      "full_pop", "true_mean", "enable_stratified", "enable_bias",
      "n_beach", "n_jungle", "n_wetland", "n_caves", "n_total", "run_btn",
      "sample_df", "strata_requests", "sub_samples", "habitat", "n_req",
      "sub_pop", "to_take", "weights", "col1", "col2", "col3",
      "sample_mean", "error", "fig", "ax1", "ax2" }

FunctionLocals ==
    { "groups", "pop_list", "name", "params", "mu", "sigma", "n_count",
      "weights", "catch_prob" }

\* a name used at module level resolves in the module's globals
Resolves(name) == name \in ModuleNames

\* sample_df['Habitat'].value_counts(): the habitats present, with counts
ValueCounts(frame) ==
    LET present == { frame[i].Habitat : i \in 1..Len(frame) }
    IN  [ h \in present |-> Cardinality({ i \in 1..Len(frame) : frame[i].Habitat = h }) ]

\* .reindex(keys, fill_value=fill): one entry per key, in the keys' order
Reindex(vc, keys, fill) ==
    [ k \in 1..Len(keys) |->
        << keys[k], IF keys[k] \in DOMAIN vc THEN vc[keys[k]] ELSE fill >> ]

\* groups.keys()
GroupKeys == [ k \in 1..Len(groups) |-> groups[k].name ]

\* line 138
SampleMean_off_by_one(frame) == FDiv(FSum(WeightCol(frame)), Len(frame) + 1)
SampleMean(frame) == Mean(WeightCol(frame))

\* the page before any message of section 4
Blank ==
    [ success |-> "none", drawn |-> Unbound, error |-> FALSE, warning |-> FALSE,
      exception |-> "none", pyplot |-> FALSE, download |-> FALSE ]

\* section 5 (lines 135-175) on sample frame, given what is rendered so far
Display(frame, pop, tm, pg) ==
    IF frame = << >>
    THEN [ page |-> pg, metrics |-> << >>, counts |-> << >> ]
    ELSE LET sample_mean == SampleMean(frame)
             error       == FSub(sample_mean, tm)
             shown       == << [ true_mean   |-> tm,
                                 sample_mean |-> sample_mean,
                                 error       |-> error,
                                 sample_size |-> Len(frame) ] >>
         IN  IF Resolves("groups")
             THEN [ page    |-> [ pg EXCEPT !.pyplot = TRUE, !.download = TRUE ],
                    metrics |-> shown,
                    counts  |-> << Reindex(ValueCounts(frame), GroupKeys, 0) >> ]
             ELSE [ page    |-> [ pg EXCEPT !.exception = "NameError" ],
                    metrics |-> shown,
                    counts  |-> << >> ]

\* ------------------------------------------------------- simulation logic
\* line 101
NewFrame == << >>

\* the frame the simple draw samples from (line 129: full_pop)
SimpleFrame_consumed(pop) ==
    LET Left(r) == \A i \in 1..Len(sample_df) : sample_df[i].ID # r.ID
    IN  SelectSeq(pop, Left)
SimpleFrame(pop) == pop

Raised(pg, ws) ==
    [ sample_df |-> NewFrame, sample_weights |-> ws,
      page |-> [ pg EXCEPT !.exception = "ValueError" ],
      metrics |-> << >>, counts |-> << >> ]

\* lines 104-121
StratifiedRuns(pop, tm, bias, reqs) ==
    IF StratifiedRaises(pop, reqs, bias)
    THEN { Raised(Blank, { StratifiedWeights(bias) }) }
    ELSE { IF sub_samples # << >>
           THEN LET df == Concat(sub_samples)
                    d  == Display(df, pop, tm,
                                  [ Blank EXCEPT !.success = "stratified",
                                                 !.drawn = Len(df) ])
                IN  [ sample_df |-> df,
                      sample_weights |-> { StratifiedWeights(bias) },
                      page |-> d.page, metrics |-> d.metrics, counts |-> d.counts ]
           ELSE [ sample_df |-> NewFrame, sample_weights |-> {},
                  page |-> [ Blank EXCEPT !.error = TRUE ],
                  metrics |-> << >>, counts |-> << >> ]
           : sub_samples \in SubSamples(pop, reqs, bias, 1) }

\* lines 124-130
SimpleRuns(pop, tm, bias, total) ==
    LET weights == SimpleWeights(bias)
        warned  == [ Blank EXCEPT !.warning = bias ]
        frame   == SimpleFrame(pop)
    IN  IF SampleRaises(frame, total, weights)
        THEN { Raised(warned, { weights }) }
        ELSE { LET d == Display(df, pop, tm,
                                [ warned EXCEPT !.success = "random",
                                                !.drawn = Len(df) ])
               IN  [ sample_df |-> df, sample_weights |-> { weights },
                     page |-> d.page, metrics |-> d.metrics, counts |-> d.counts ]
               : df \in Sample(frame, total, weights) }

\* one execution of the script with the given widget values
Run(es, eb, nb, nj, nw, nc, nt, typed, btn) ==
    LET hit == CacheHit(cache)
        pop == IF hit THEN CHOOSE v \in cache : TRUE ELSE BuildPopulation
        tm  == Mean(WeightCol(pop))
        runs == IF es THEN StratifiedRuns(pop, tm, eb, StrataRequests(nb, nj, nw, nc))
                ELSE SimpleRuns(pop, tm, eb, nt)
    IN  /\ cache' = { pop }
        /\ builds' = IF hit THEN builds ELSE builds + 1
        /\ full_pop' = pop
        /\ true_mean' = tm
        /\ enable_stratified' = es
        /\ enable_bias' = eb
        /\ n_beach' = nb
        /\ n_jungle' = nj
        /\ n_wetland' = nw
        /\ n_caves' = nc
        /\ n_total' = nt
        /\ typed_total' = typed
        /\ run_btn' = btn
        /\ prev_failed' = (IF run_btn THEN page.error ELSE prev_failed)
        /\ IF btn
           THEN \E o \in runs :
                  /\ sample_df' = o.sample_df
                  /\ sample_weights' = o.sample_weights
                  /\ page' = o.page
                  /\ metrics' = o.metrics
                  /\ counts' = o.counts
           ELSE /\ sample_df' = << >>
                /\ sample_weights' = {}
                /\ page' = Blank
                /\ metrics' = << >>
                /\ counts' = << >>

\* ------------------------------------------------------------- widgets
\* number_input(min_value=0): whether the widget takes the entry
QuotaAccepts(entry) == entry >= MinQuota

\* number_input(min_value=1, max_value=10000)
TotalAccepts_unbounded(entry) == TRUE
TotalAccepts(entry) == entry >= MinTotal /\ entry <= MaxTotal

QuotaEntries == ((0 - 1)..MaxQuota) \cup { DefaultQuota }
TotalEntries == 0..(MaxTotal + 1)

Init ==
    /\ session = FALSE
    /\ cache = {}
    /\ builds = 0
    /\ full_pop = << >>
    /\ true_mean = 0
    /\ enable_stratified = FALSE
    /\ enable_bias = FALSE
    /\ n_beach = Unbound
    /\ n_jungle = Unbound
    /\ n_wetland = Unbound
    /\ n_caves = Unbound
    /\ n_total = Unbound
    /\ typed_total = Unbound
    /\ run_btn = FALSE
    /\ sample_df = << >>
    /\ sample_weights = {}
    /\ page = Blank
    /\ metrics = << >>
    /\ counts = << >>
    /\ prev_failed = FALSE

\* a browser opens the page: a new session, every widget at its default
PageLoad ==
    /\ session' = TRUE
    /\ Run(FALSE, FALSE, Unbound, Unbound, Unbound, Unbound,
           DefaultTotal, DefaultTotal, FALSE)

\* the checkbox of line 75; the inputs of the branch entered are new
ToggleStratified ==
    /\ session
    /\ UNCHANGED session
    /\ IF enable_stratified
       THEN Run(FALSE, enable_bias, Unbound, Unbound, Unbound, Unbound,
                DefaultTotal, DefaultTotal, FALSE)
       ELSE Run(TRUE, enable_bias, DefaultQuota, DefaultQuota, DefaultQuota,
                DefaultQuota, Unbound, Unbound, FALSE)

\* the checkbox of line 76
ToggleBias ==
    /\ session
    /\ UNCHANGED session
    /\ Run(enable_stratified, ~enable_bias, n_beach, n_jungle, n_wetland,
           n_caves, n_total, typed_total, FALSE)

\* an entry in one of the inputs of lines 84-87
SetQuota ==
    /\ session
    /\ UNCHANGED session
    /\ enable_stratified
    /\ \E h \in 1..4, entry \in QuotaEntries :
         /\ QuotaAccepts(entry)
         /\ Run(TRUE, enable_bias,
                IF h = 1 THEN entry ELSE n_beach,
                IF h = 2 THEN entry ELSE n_jungle,
                IF h = 3 THEN entry ELSE n_wetland,
                IF h = 4 THEN entry ELSE n_caves,
                n_total, typed_total, FALSE)

\* an entry in the input of line 90: taken, or left in the box untaken
SetTotal ==
    /\ session
    /\ UNCHANGED session
    /\ ~enable_stratified
    /\ \E entry \in TotalEntries :
         IF TotalAccepts(entry)
         THEN Run(FALSE, enable_bias, n_beach, n_jungle, n_wetland, n_caves,
                  entry, entry, FALSE)
         ELSE /\ typed_total' = entry
              /\ UNCHANGED << cache, builds, full_pop, true_mean,
                              enable_stratified, enable_bias, n_beach, n_jungle,
                              n_wetland, n_caves, n_total, run_btn, sample_df,
                              sample_weights, page, metrics, counts, prev_failed >>

\* the button of line 95
ClickDraw ==
    /\ session
    /\ UNCHANGED session
    /\ Run(enable_stratified, enable_bias, n_beach, n_jungle, n_wetland,
           n_caves, n_total, typed_total, TRUE)

Next ==
    \/ PageLoad
    \/ ToggleStratified
    \/ ToggleBias
    \/ SetQuota
    \/ SetTotal
    \/ ClickDraw

Spec == Init /\ [][Next]_vars

\* ================================================================ claims
Quotas == << n_beach, n_jungle, n_wetland, n_caves >>

CountIn(frame, h) == Cardinality({ i \in 1..Len(frame) : frame[i].Habitat = h })

NoDuplicates(frame) ==
    \A i, j \in 1..Len(frame) : i # j => frame[i].ID # frame[j].ID

Rows(frame) == { frame[i] : i \in 1..Len(frame) }

\* the quota capped at the configured size of the stratum
Capped(k) == IF Quotas[k] <= groups[k].n_count THEN Quotas[k] ELSE groups[k].n_count

SomeQuotaPositive == \E k \in 1..4 : Quotas[k] > 0

StratifiedDrawn == run_btn /\ enable_stratified
SimpleDrawn == run_btn /\ ~enable_stratified

\* C1: a stratified draw with some positive quota succeeds and holds, for
\* every habitat, exactly min(quota, stratum size) individuals: a quota
\* above the stratum's size yields the whole stratum, the draw raises
\* nothing, and no individual appears twice.
C1_StratifiedCap ==
    (StratifiedDrawn /\ SomeQuotaPositive) =>
        /\ page.success = "stratified"
        /\ ~page.error
        /\ page.exception # "ValueError"
        /\ \A k \in 1..4 : CountIn(sample_df, Habitats[k]) = Capped(k)
        /\ page.drawn = Len(sample_df)
        /\ NoDuplicates(sample_df)

C1_Witness ==
    /\ StratifiedDrawn
    /\ n_beach > 0 /\ n_beach < NBeach
    /\ n_jungle > NJungle
    /\ n_wetland = 0
    /\ CountIn(sample_df, "Beach") = n_beach
    /\ CountIn(sample_df, "Jungle") = NJungle

\* C2: a stratified request with every quota 0 shows the empty-request
\* error: no draw is made, no sample and no summary are produced; while the
\* quotas are all 0 the page holds no results, before the request as after.
C2_EmptyRequest ==
    (session /\ enable_stratified /\ ~SomeQuotaPositive) =>
        /\ sample_df = << >>
        /\ metrics = << >>
        /\ counts = << >>
        /\ sample_weights = {}
        /\ page.success = "none"
        /\ ~page.pyplot /\ ~page.download
        /\ page.exception = "none"
        /\ run_btn => page.error

C2_Witness ==
    /\ StratifiedDrawn
    /\ ~SomeQuotaPositive
    /\ page.error
    /\ sample_df = << >>

\* C3 as stated: a simple-random request whose size, as entered, is <= 0 or
\* above the population size is rejected and yields no sample.
C3_Original ==
    (SimpleDrawn /\ ~(typed_total \in MinTotal..MaxTotal)) =>
        /\ sample_df = << >>
        /\ page.success = "none"

\* C3 amended: the size of a simple-random request is always within
\* 1..population size (an entry outside it is not taken by the input), no
\* request is rejected for its size, and every simple draw yields a full
\* sample of n_total individuals.
C3_SizeAlwaysInRange ==
    (session /\ ~enable_stratified) =>
        /\ n_total \in MinTotal..MaxTotal
        /\ run_btn =>
             /\ page.success = "random"
             /\ page.drawn = n_total
             /\ Len(sample_df) = n_total
             /\ ~page.error
             /\ page.exception # "ValueError"

C3_Witness ==
    /\ SimpleDrawn
    /\ typed_total > MaxTotal
    /\ n_total \in MinTotal..MaxTotal
    /\ Len(sample_df) = n_total

\* C4: a simple-random draw, biased or not, returns exactly n_total
\* individuals, pairwise distinct, all rows of the population.
C4_SimpleDraw ==
    SimpleDrawn =>
        /\ Len(sample_df) = n_total
        /\ NoDuplicates(sample_df)
        /\ Rows(sample_df) \subseteq Rows(full_pop)
        /\ Cardinality(Rows(sample_df)) = n_total

C4_Witness ==
    /\ SimpleDrawn
    /\ enable_bias
    /\ n_total = MaxTotal
    /\ Len(sample_df) = MaxTotal
    /\ page.warning

\* C5: in stratified mode the bias flag changes nothing: the executions
\* possible for the current quotas are the same with the flag set and
\* unset, every sub-draw is made without weights, and no bias warning is
\* shown.
C5_BiasIgnoredInStratified ==
    (session /\ enable_stratified) =>
        /\ StratifiedRuns(full_pop, true_mean, TRUE,
                          StrataRequests(n_beach, n_jungle, n_wetland, n_caves))
           = StratifiedRuns(full_pop, true_mean, FALSE,
                            StrataRequests(n_beach, n_jungle, n_wetland, n_caves))
        /\ run_btn => (sample_weights \subseteq { "None" } /\ ~page.warning)

C5_Witness ==
    /\ StratifiedDrawn
    /\ enable_bias
    /\ page.success = "stratified"
    /\ CountIn(sample_df, "Caves") > 0
    /\ sample_weights = { "None" }

\* C6: the population is partitioned by habitat: each configured habitat
\* contributes exactly its n_count rows, every row belongs to a configured
\* habitat, ids are unique over the whole population, and every row's
\* catch probability is its habitat's constant (Caves 0.05, Wetlands 0.6,
\* others 1.0).
C6_PopulationPartition ==
    session =>
        /\ Len(full_pop) = NBeach + NJungle + NWetlands + NCaves
        /\ \A k \in 1..Len(groups) :
             CountIn(full_pop, groups[k].name) = groups[k].n_count
        /\ \A i \in 1..Len(full_pop) :
             /\ \E k \in 1..Len(groups) : full_pop[i].Habitat = groups[k].name
             /\ full_pop[i].Catch_Prob =
                  (CASE full_pop[i].Habitat = "Caves" -> 5
                     [] full_pop[i].Habitat = "Wetlands" -> 60
                     [] OTHER -> 100)
        /\ NoDuplicates(full_pop)

C6_Witness ==
    /\ session
    /\ builds = 1
    /\ CountIn(full_pop, "Beach") = NBeach
    /\ CountIn(full_pop, "Caves") = NCaves
    /\ Len(full_pop) = MaxTotal

\* C7 as stated: after every successful draw the habitat counts are
\* produced: one entry per habitat of the fixed list, in its order, with
\* the number of sample rows of that habitat (0 when absent).
C7_HabitatCounts ==
    (run_btn /\ page.success # "none" /\ sample_df # << >>) =>
        counts = << [ k \in 1..4 |->
                        << Habitats[k], CountIn(sample_df, Habitats[k]) >> ] >>

\* C8: the population is built at most once and never changes afterwards:
\* every execution reads the one cached population and computes the same
\* true mean.
C8_PopulationBuiltOnce ==
    /\ builds <= 1
    /\ session =>
         /\ builds = 1
         /\ cache = { BuildPopulation }
         /\ full_pop = BuildPopulation
         /\ true_mean = Mean(WeightCol(BuildPopulation))
         /\ metrics # << >> => metrics[1].true_mean = true_mean

C8_Witness ==
    /\ builds = 1
    /\ run_btn
    /\ prev_failed
    /\ metrics # << >>
    /\ metrics[1].true_mean = true_mean

WholePopulationRequested ==
    /\ run_btn
    /\ IF enable_stratified
       THEN \A k \in 1..4 : Quotas[k] >= groups[k].n_count
       ELSE n_total = MaxTotal

\* C9 as stated: when the sample is the entire population, sample_mean
\* equals true_mean exactly, error is 0 and sample_size is the population
\* size.
C9_Original ==
    WholePopulationRequested =>
        /\ metrics # << >>
        /\ metrics[1].sample_mean = metrics[1].true_mean
        /\ metrics[1].error = 0
        /\ metrics[1].sample_size = MaxTotal

\* C9 amended: when the sample is the entire population, sample_size is
\* the population size and the sample holds exactly the population's rows,
\* so the two means agree over the reals; error is sample_mean - true_mean,
\* and the computed means are equal (error 0) when the sample's rows are in
\* the population's order.
C9_WholePopulation ==
    WholePopulationRequested =>
        /\ metrics # << >>
        /\ metrics[1].sample_size = MaxTotal
        /\ Rows(sample_df) = Rows(full_pop)
        /\ ExactSum(WeightCol(sample_df), 1) = ExactSum(WeightCol(full_pop), 1)
        /\ metrics[1].error = FSub(metrics[1].sample_mean, metrics[1].true_mean)
        /\ sample_df = full_pop =>
             (metrics[1].sample_mean = metrics[1].true_mean /\ metrics[1].error = 0)

C9_Witness ==
    /\ WholePopulationRequested
    /\ metrics # << >>
    /\ metrics[1].sample_size = MaxTotal
    /\ sample_df = full_pop
    /\ metrics[1].error = 0

ValidStrategy == IF enable_stratified THEN SomeQuotaPositive ELSE TRUE

\* C10: every draw request is settled by the population and the strategy
\* alone, whatever came before: a valid request, also one that follows a
\* failed request, shows a sample drawn afresh from the whole population
\* (distinct rows, the strategy's size per habitat) and the metrics of that
\* sample; an empty request shows the error and no sample.
C10_RequestsIndependent ==
    run_btn =>
        IF ValidStrategy
        THEN /\ page.success # "none"
             /\ ~page.error
             /\ NoDuplicates(sample_df)
             /\ Rows(sample_df) \subseteq Rows(full_pop)
             /\ IF enable_stratified
                THEN \A k \in 1..4 : CountIn(sample_df, Habitats[k]) = Capped(k)
                ELSE Len(sample_df) = n_total
             /\ metrics # << >>
             /\ metrics[1].sample_size = Len(sample_df)
             /\ metrics[1].sample_mean = Mean(WeightCol(sample_df))
        ELSE /\ page.error
             /\ sample_df = << >>
             /\ metrics = << >>

C10_Witness ==
    /\ run_btn
    /\ prev_failed
    /\ page.success # "none"
    /\ metrics # << >>
    /\ sample_df # << >>

====
